---- MODULE Spec2Model ----
(***************************************************************************)
(* Hybrid search of git-context: query parsing, lexical relevance,         *)
(* embedding codec, cosine similarity and the runSearch command.           *)
(*                                                                         *)
(* Strings are sequences of one-character strings.  Doubles are modelled   *)
(* in fixed point: a vector component is an integer, a similarity is in    *)
(* units of 1/SimScale and a score in units of 1/ScoreUnit.                *)
(***************************************************************************)
EXTENDS Integers, Sequences, FiniteSets, TLC

(***************************************************************************)
(* Go's strings package                                                    *)
(***************************************************************************)

\* unicode.ToLower on the characters of the model's alphabet
ToLowerCh(c) ==
  CASE c = "A" -> "a"
    [] c = "B" -> "b"
    [] c = "C" -> "c"
    [] OTHER -> c

\* strings.ToLower
ToLower(s) == [i \in 1..Len(s) |-> ToLowerCh(s[i])]

\* strings.HasPrefix(s[i-1:], sub), positions 1-based
MatchAt(s, sub, i) ==
  /\ i + Len(sub) - 1 <= Len(s)
  /\ \A k \in 1..Len(sub) : s[i + k - 1] = sub[k]

\* strings.Contains
Contains(s, sub) == \E i \in 1..(Len(s) + 1) : MatchAt(s, sub, i)

RECURSIVE CountFrom(_, _, _)
CountFrom(s, sub, i) ==
  IF i + Len(sub) - 1 > Len(s) THEN 0
  ELSE IF MatchAt(s, sub, i) THEN 1 + CountFrom(s, sub, i + Len(sub))
  ELSE CountFrom(s, sub, i + 1)

\* strings.Count: non-overlapping occurrences; len(s)+1 for the empty substring
Count(s, sub) == IF Len(sub) = 0 THEN Len(s) + 1 ELSE CountFrom(s, sub, 1)

RECURSIVE FieldsFrom(_, _, _)
FieldsFrom(s, i, cur) ==
  IF i > Len(s) THEN (IF cur = <<>> THEN <<>> ELSE <<cur>>)
  ELSE IF s[i] = " "
       THEN (IF cur = <<>> THEN <<>> ELSE <<cur>>) \o FieldsFrom(s, i + 1, <<>>)
       ELSE FieldsFrom(s, i + 1, Append(cur, s[i]))

\* strings.Fields: split around runs of white space
Fields(s) == FieldsFrom(s, 1, <<>>)

RECURSIVE JoinSpace(_)
JoinSpace(ss) ==
  IF ss = <<>> THEN <<>>
  ELSE IF Len(ss) = 1 THEN ss[1]
  ELSE ss[1] \o <<" ">> \o JoinSpace(Tail(ss))

\* fmt's %v rendering of a []string: [t1 t2 ...]
FormatTags(tags) == <<"[">> \o JoinSpace(tags) \o <<"]">>

(***************************************************************************)
(* parseSearchQuery                                                        *)
(***************************************************************************)

RECURSIVE ScanQuotes(_, _, _, _, _, _)
\* the first loop of parseSearchQuery from position i on
ScanQuotes(query, i, inQuote, currentPhrase, remaining, phrases) ==
  IF i > Len(query)
  THEN [phrases |-> phrases, remaining |-> remaining]
  ELSE IF query[i] = "\""
       THEN IF inQuote
            THEN ScanQuotes(query, i + 1, FALSE, <<>>, remaining,
                            IF currentPhrase # <<>>
                            THEN Append(phrases, ToLower(currentPhrase))
                            ELSE phrases)
            ELSE ScanQuotes(query, i + 1, TRUE, currentPhrase, remaining, phrases)
       ELSE IF inQuote
            THEN ScanQuotes(query, i + 1, inQuote, Append(currentPhrase, query[i]),
                            remaining, phrases)
            ELSE ScanQuotes(query, i + 1, inQuote, currentPhrase,
                            Append(remaining, query[i]), phrases)

RECURSIVE ClassifyWords(_, _)
\* the second loop of parseSearchQuery over the words of remaining
ClassifyWords(words, sq) ==
  IF words = <<>> THEN sq
  ELSE LET word == Head(words) IN
       ClassifyWords(Tail(words),
         IF Len(word) = 0 THEN sq
         ELSE IF word[1] = "+"
              THEN (IF Len(word) > 1
                    THEN [sq EXCEPT !.required = Append(@, ToLower(Tail(word)))]
                    ELSE sq)
         ELSE IF word[1] = "-"
              THEN (IF Len(word) > 1
                    THEN [sq EXCEPT !.excluded = Append(@, ToLower(Tail(word)))]
                    ELSE sq)
         ELSE [sq EXCEPT !.normal = Append(@, ToLower(word))])

\* parseSearchQuery splitting the whole query, quoted spans included, into terms
parseSearchQueryQuotedTerms(query) ==
  LET scan == ScanQuotes(query, 1, FALSE, <<>>, <<>>, <<>>)
      notQuote(c) == c # "\""
  IN ClassifyWords(Fields(SelectSeq(query, notQuote)),
                   [required |-> <<>>, excluded |-> <<>>,
                    phrases |-> scan.phrases, normal |-> <<>>])

\* parseSearchQuery taking what follows an unterminated quote as a phrase
parseSearchQueryLiteralTail(query) ==
  LET scan == ScanQuotes(query, 1, FALSE, <<>>, <<>>, <<>>)
      quotes == { i \in 1..Len(query) : query[i] = "\"" }
      lastQuote == CHOOSE i \in quotes : \A k \in quotes : k <= i
      tail == IF Cardinality(quotes) % 2 = 1
              THEN SubSeq(query, lastQuote + 1, Len(query))
              ELSE <<>>
  IN ClassifyWords(Fields(scan.remaining),
                   [required |-> <<>>, excluded |-> <<>>,
                    phrases |-> IF tail # <<>>
                                THEN Append(scan.phrases, ToLower(tail))
                                ELSE scan.phrases,
                    normal |-> <<>>])

\* parseSearchQuery stripping the prefix of a bare + as well
parseSearchQueryStrippingBare(query) ==
  LET scan == ScanQuotes(query, 1, FALSE, <<>>, <<>>, <<>>)
      words == Fields(scan.remaining)
      barePlus(word) == word = <<"+">>
      sq == ClassifyWords(words, [required |-> <<>>, excluded |-> <<>>,
                                  phrases |-> scan.phrases, normal |-> <<>>])
  IN [sq EXCEPT !.required =
        @ \o [i \in 1..Len(SelectSeq(words, barePlus)) |-> <<>>]]

\* parseSearchQuery with a bare + or - kept as a normal term
parseSearchQueryKeepingBare(query) ==
  LET scan == ScanQuotes(query, 1, FALSE, <<>>, <<>>, <<>>)
      words == Fields(scan.remaining)
      bare(word) == word = <<"+">> \/ word = <<"-">>
      sq == ClassifyWords(words, [required |-> <<>>, excluded |-> <<>>,
                                  phrases |-> scan.phrases, normal |-> <<>>])
  IN [sq EXCEPT !.normal = @ \o SelectSeq(words, bare)]

parseSearchQuery(query) ==
  LET scan == ScanQuotes(query, 1, FALSE, <<>>, <<>>, <<>>) IN
  ClassifyWords(Fields(scan.remaining),
                [required |-> <<>>, excluded |-> <<>>,
                 phrases |-> scan.phrases, normal |-> <<>>])

(***************************************************************************)
(* calculateRelevance                                                      *)
(***************************************************************************)

OccurrencePoints == 10
TopicBonus == 50
TagBonus == 30
PhraseBonus == 100
PhraseTopicBonus == 150

\* the lowercase blob the terms are matched against
SearchableText(metadata) ==
  ToLower(metadata.Topic \o <<" ">> \o metadata.Notes \o <<" ">>
          \o metadata.RelatedBranch \o <<" ">> \o FormatTags(metadata.Tags))

RECURSIVE SumSeq(_)
SumSeq(ns) == IF ns = <<>> THEN 0 ELSE Head(ns) + SumSeq(Tail(ns))

\* the tag bonus given once, for the first matching tag only
TermScoreFirstTagOnly(word, metadata) ==
  Count(SearchableText(metadata), word) * OccurrencePoints
  + (IF Contains(ToLower(metadata.Topic), word) THEN TopicBonus ELSE 0)
  + (IF \E t \in 1..Len(metadata.Tags) : Contains(ToLower(metadata.Tags[t]), word)
     THEN TagBonus ELSE 0)

\* the points one term of allTerms adds
TermScore(word, metadata) ==
  Count(SearchableText(metadata), word) * OccurrencePoints
  + (IF Contains(ToLower(metadata.Topic), word) THEN TopicBonus ELSE 0)
  + SumSeq([t \in 1..Len(metadata.Tags) |->
              IF Contains(ToLower(metadata.Tags[t]), word) THEN TagBonus ELSE 0])

\* the points one phrase adds
PhraseScore(phrase, metadata) ==
  (IF Contains(SearchableText(metadata), phrase) THEN PhraseBonus ELSE 0)
  + (IF Contains(ToLower(metadata.Topic), phrase) THEN PhraseTopicBonus ELSE 0)

\* the excluded terms matched against the topic only
ExcludedHitTopicOnly(query, metadata) ==
  \E k \in 1..Len(query.excluded) :
     Contains(ToLower(metadata.Topic), query.excluded[k])

\* some excluded term is in the blob
ExcludedHit(query, metadata) ==
  \E k \in 1..Len(query.excluded) :
     Contains(SearchableText(metadata), query.excluded[k])

\* the required check with its condition inverted
RequiredMissInverted(query, metadata) ==
  \E k \in 1..Len(query.required) :
     Contains(SearchableText(metadata), query.required[k])

\* some required term is not in the blob
RequiredMiss(query, metadata) ==
  \E k \in 1..Len(query.required) :
     ~Contains(SearchableText(metadata), query.required[k])

\* the phrase check done word by word
PhraseMissByWords(query, metadata) ==
  \E k \in 1..Len(query.phrases) :
     \E w \in 1..Len(Fields(query.phrases[k])) :
        ~Contains(SearchableText(metadata), Fields(query.phrases[k])[w])

\* some phrase is not in the blob
PhraseMiss(query, metadata) ==
  \E k \in 1..Len(query.phrases) :
     ~Contains(SearchableText(metadata), query.phrases[k])

\* calculateRelevance excluding every candidate that scores nothing
calculateRelevanceExcludingUnmatched(query, metadata) ==
  LET allTerms == query.normal \o query.required
      score == SumSeq([k \in 1..Len(allTerms) |-> TermScore(allTerms[k], metadata)])
               + SumSeq([k \in 1..Len(query.phrases) |->
                           PhraseScore(query.phrases[k], metadata)])
  IN IF ExcludedHit(query, metadata) \/ RequiredMiss(query, metadata)
        \/ PhraseMiss(query, metadata) \/ score = 0
     THEN [score |-> 0, exclude |-> TRUE]
     ELSE [score |-> score, exclude |-> FALSE]

calculateRelevance(query, metadata) ==
  IF ExcludedHit(query, metadata) THEN [score |-> 0, exclude |-> TRUE]
  ELSE IF RequiredMiss(query, metadata) THEN [score |-> 0, exclude |-> TRUE]
  ELSE IF PhraseMiss(query, metadata) THEN [score |-> 0, exclude |-> TRUE]
  ELSE LET allTerms == query.normal \o query.required IN
       [score |-> SumSeq([k \in 1..Len(allTerms) |-> TermScore(allTerms[k], metadata)])
                  + SumSeq([k \in 1..Len(query.phrases) |->
                              PhraseScore(query.phrases[k], metadata)]),
        exclude |-> FALSE]

(***************************************************************************)
(* Fixed-point arithmetic standing for float64                             *)
(***************************************************************************)

\* units per 1.0 of a norm (math.Sqrt is rounded to this precision)
SqrtScale == 10
\* units per 1.0 of a similarity and of a semantic score
SimScale == 1000
\* units per 1.0 of a weight
WeightScale == 10
\* units per 1.0 of a final score
ScoreUnit == SimScale * WeightScale

\* the largest finite float64, scaled down to the values of the model
MaxFloat == 10000
PosInf == MaxFloat + 1
NegInf == -PosInf
NaN == MaxFloat + 2

\* the float64 an exact result becomes: an infinity beyond the finite range
Overflow(x) == IF x > MaxFloat THEN PosInf ELSE IF x < -MaxFloat THEN NegInf ELSE x

\* x + y in float64
FAdd(x, y) ==
  IF x = NaN \/ y = NaN THEN NaN
  ELSE IF (x = PosInf /\ y = NegInf) \/ (x = NegInf /\ y = PosInf) THEN NaN
  ELSE IF x = PosInf \/ y = PosInf THEN PosInf
  ELSE IF x = NegInf \/ y = NegInf THEN NegInf
  ELSE Overflow(x + y)

\* x * y in float64, x and y finite
FMul(x, y) == Overflow(x * y)

RECURSIVE FSum(_)
\* sum := 0.0; for each term, in order: sum += term
FSum(terms) ==
  IF terms = <<>> THEN 0
  ELSE FAdd(FSum(SubSeq(terms, 1, Len(terms) - 1)), terms[Len(terms)])

\* p / q rounded to nearest, q > 0
RoundDiv(p, q) == (2 * p + q) \div (2 * q)

\* a value above the square root of MaxFloat
MaxRoot == 101

RECURSIVE FloorSqrt(_, _, _)
\* the largest r in lo..hi with r * r <= m
FloorSqrt(m, lo, hi) ==
  IF lo >= hi THEN lo
  ELSE LET mid == (lo + hi + 1) \div 2 IN
       IF mid * mid <= m THEN FloorSqrt(m, mid, hi) ELSE FloorSqrt(m, lo, mid - 1)

\* math.Sqrt of a non-negative value, rounded to nearest, in units of
\* 1/SqrtScale; the root of +Inf is +Inf
Sqrt(n) ==
  IF n = PosInf THEN PosInf
  ELSE LET m == n * SqrtScale * SqrtScale
           r == FloorSqrt(m, 0, SqrtScale * (IF n + 1 < MaxRoot THEN n + 1 ELSE MaxRoot))
       IN IF m - r * r > r THEN r + 1 ELSE r

(***************************************************************************)
(* package embeddings: similarity                                          *)
(***************************************************************************)

SumSquares(v) == FSum([i \in 1..Len(v) |-> FMul(v[i], v[i])])

\* Magnitude, in units of 1/SqrtScale
Magnitude(v) == IF Len(v) = 0 THEN 0 ELSE Sqrt(SumSquares(v))

\* DotProduct adding zeros to the shorter vector
DotProductPadding(a, b) ==
  LET n == IF Len(a) > Len(b) THEN Len(a) ELSE Len(b)
      at(v, i) == IF i <= Len(v) THEN v[i] ELSE 0
  IN IF n = 0 THEN [err |-> "empty", value |-> 0]
     ELSE [err |-> "none", value |-> FSum([i \in 1..n |-> FMul(at(a, i), at(b, i))])]

DotProduct(a, b) ==
  IF Len(a) # Len(b) THEN [err |-> "length", value |-> 0]
  ELSE IF Len(a) = 0 THEN [err |-> "empty", value |-> 0]
  ELSE [err |-> "none", value |-> FSum([i \in 1..Len(a) |-> FMul(a[i], b[i])])]

\* dotProduct / (normA * normB) in float64, the norms positive, in units of
\* 1/SimScale
Quotient(dotProduct, normA, normB) ==
  IF dotProduct = NaN THEN NaN
  ELSE IF normA = PosInf \/ normB = PosInf
       THEN IF dotProduct \in {PosInf, NegInf} THEN NaN ELSE 0
  ELSE IF dotProduct \in {PosInf, NegInf} THEN dotProduct
  ELSE RoundDiv(dotProduct * SqrtScale * SqrtScale * SimScale, normA * normB)

\* the clamp at the end of CosineSimilarity; no comparison holds of a NaN
Clamp(similarity) ==
  IF similarity = NaN THEN NaN
  ELSE IF similarity > SimScale THEN SimScale
  ELSE IF similarity < -SimScale THEN -SimScale
  ELSE similarity

\* CosineSimilarity comparing only the common prefix of the two vectors
CosineSimilarityTruncating(a, b) ==
  LET n == IF Len(a) < Len(b) THEN Len(a) ELSE Len(b) IN
  IF n = 0 THEN [err |-> "empty", value |-> 0]
  ELSE LET dotProduct == FSum([i \in 1..n |-> FMul(a[i], b[i])])
           normA == Sqrt(SumSquares(SubSeq(a, 1, n)))
           normB == Sqrt(SumSquares(SubSeq(b, 1, n)))
       IN IF normA = 0 \/ normB = 0 THEN [err |-> "zeronorm", value |-> 0]
          ELSE [err |-> "none", value |-> Clamp(Quotient(dotProduct, normA, normB))]

\* CosineSimilarity, value in units of 1/SimScale
CosineSimilarity(a, b) ==
  IF Len(a) # Len(b) THEN [err |-> "length", value |-> 0]
  ELSE IF Len(a) = 0 THEN [err |-> "empty", value |-> 0]
  ELSE LET dotProduct == FSum([i \in 1..Len(a) |-> FMul(a[i], b[i])])
           normA == Sqrt(SumSquares(a))
           normB == Sqrt(SumSquares(b))
       IN IF normA = 0 \/ normB = 0 THEN [err |-> "zeronorm", value |-> 0]
          ELSE [err |-> "none", value |-> Clamp(Quotient(dotProduct, normA, normB))]

(***************************************************************************)
(* package embeddings: binary codec                                        *)
(***************************************************************************)

BytesPerFloat == 8
SignBit == 128

\* binary.Write of one float64, little endian: eight bytes, the sign in the
\* top bit of the last byte, the magnitude in the low bytes
Float64Bytes(val) ==
  LET mag == IF val < 0 THEN -val ELSE val IN
  << mag % 256, (mag \div 256) % 256, 0, 0, 0, 0, 0, IF val < 0 THEN SignBit ELSE 0 >>

\* binary.Read with binary.BigEndian
Float64FromBytesBigEndian(b) ==
  LET mag == b[8] + 256 * b[7] IN
  IF b[1] >= SignBit THEN -mag ELSE mag

\* binary.Read of one float64 from eight bytes
Float64FromBytes(b) ==
  LET mag == b[1] + 256 * b[2] IN
  IF b[8] >= SignBit THEN -mag ELSE mag

RECURSIVE EncodeVector(_)
\* the bytes WriteEmbedding puts in the file
EncodeVector(vec) ==
  IF vec = <<>> THEN <<>> ELSE Float64Bytes(Head(vec)) \o EncodeVector(Tail(vec))

\* ValidateEmbedding: the error it returns; val != val holds of a NaN only
ValidateEmbedding(vec) ==
  IF Len(vec) = 0 THEN "empty"
  ELSE IF \E i \in 1..Len(vec) : vec[i] = NaN THEN "nan"
  ELSE IF \E i \in 1..Len(vec) : vec[i] > MaxFloat \/ vec[i] < -MaxFloat THEN "invalid"
  ELSE "none"

\* ReadEmbedding without the check that the size is a multiple of 8
ReadEmbeddingRoundingDown(bytes) ==
  LET size == Len(bytes) IN
  IF size = 0 THEN [err |-> "empty", vec |-> <<>>]
  ELSE [err |-> "none",
        vec |-> [i \in 1..(size \div BytesPerFloat) |->
                   Float64FromBytes(SubSeq(bytes, BytesPerFloat * (i - 1) + 1,
                                           BytesPerFloat * i))]]

\* ReadEmbedding on a file holding these bytes
ReadEmbedding(bytes) ==
  LET size == Len(bytes) IN
  IF size = 0 THEN [err |-> "empty", vec |-> <<>>]
  ELSE IF size % BytesPerFloat # 0 THEN [err |-> "size", vec |-> <<>>]
  ELSE [err |-> "none",
        vec |-> [i \in 1..(size \div BytesPerFloat) |->
                   Float64FromBytes(SubSeq(bytes, BytesPerFloat * (i - 1) + 1,
                                           BytesPerFloat * i))]]

(***************************************************************************)
(* package config                                                          *)
(***************************************************************************)

\* GetKeywordWeight: 0.3 when search.keyword_weight is unset (0)
GetKeywordWeight(configured) == IF configured = 0 THEN 3 ELSE configured

\* GetSemanticWeight: 0.7 when search.semantic_weight is unset (0)
GetSemanticWeight(configured) == IF configured = 0 THEN 7 ELSE configured

(***************************************************************************)
(* Inputs: queries, snapshot branches, embedding service answers           *)
(***************************************************************************)

MaxBranches == 2

NoString == <<>>
EmbeddingFile == <<"e">>

Metadata(topic, notes, tags, embedding) ==
  [Topic |-> topic, Notes |-> notes, RelatedBranch |-> NoString,
   Tags |-> tags, Embedding |-> embedding]

MetaTopicA == Metadata(<<"a">>, NoString, <<>>, NoString)
MetaTopicAEmb == Metadata(<<"a">>, NoString, <<>>, EmbeddingFile)
MetaNotesAA == Metadata(<<"c">>, <<"a", " ", "a">>, <<>>, EmbeddingFile)
MetaPhraseTopic == Metadata(<<"A", " ", "b">>, NoString, << <<"a">>, <<"a", "b">> >>, EmbeddingFile)
MetaPhraseNotes == Metadata(<<"c">>, <<"a", " ", "b">>, << <<"b">> >>, EmbeddingFile)
MetaScattered == Metadata(<<"c">>, <<"b", " ", "a">>, << <<"a">> >>, EmbeddingFile)

\* a snapshot branch as runSearch sees it: whether its name parsed and its
\* meta.json was shown and unmarshalled, the topic slug in its name, the
\* metadata, whether the embedding file can be shown, and the file's bytes
Branch(loaded, slug, meta, embShown, embBytes) ==
  [loaded |-> loaded, slug |-> slug, meta |-> meta,
   embShown |-> embShown, embBytes |-> embBytes]

BranchPool ==
  { Branch(TRUE, "p", MetaTopicA, FALSE, <<>>),
    Branch(TRUE, "p", MetaNotesAA, TRUE, EncodeVector(<<1, 0>>)),
    Branch(TRUE, "q", MetaPhraseTopic, TRUE, EncodeVector(<<-3, -4>>)),
    Branch(TRUE, "q", MetaScattered, TRUE, EncodeVector(<<0, 0>>)),
    Branch(TRUE, "p", MetaPhraseNotes, TRUE, EncodeVector(<<1>>)),
    Branch(TRUE, "q", MetaNotesAA, TRUE, <<1, 2, 3>>),
    Branch(TRUE, "p", MetaTopicAEmb, FALSE, <<>>),
    Branch(FALSE, "p", MetaTopicA, FALSE, <<>>) }

Queries ==
  { <<"a">>,
    <<"-", "A", " ", "c">>,
    <<"+", "b", " ", "a">>,
    <<"\"", "a", " ", "b", "\"">>,
    <<"\"", "a", " ", "b", "\"", " ", "a">>,
    <<"-", "b">>,
    <<" ">>,
    <<>> }

SearchTopics == {"", "p"}

\* vectors the embedding service may answer with
QueryEmbeddings == { <<1, 0>>, <<3, 4>> }

\* values of search.keyword_weight / search.semantic_weight, in tenths; the
\* getters accept any number, a negative one too
ConfiguredWeights == { <<0, 0>>, <<-5, 5>> }

(***************************************************************************)
(* runSearch                                                               *)
(***************************************************************************)

VARIABLES
  pc,                \* position in runSearch
  query,             \* args[0]
  searchTopic,       \* the --topic flag
  listed,            \* len(branches): the snapshot branches git.ListBranches named
  branches,          \* what the loop has read of each branch so far, in listing order
  parsedQuery,       \* parseSearchQuery(query)
  semanticStatus,    \* the search mode announced: "keyword" or "hybrid"
  ollamaResponds,    \* whether the pending Embed request will be answered
  embedRequests,     \* Embed requests sent to the service
  queryEmbedding,
  useSemanticSearch,
  keywordWeight,     \* in units of 1/WeightScale
  semanticWeight,
  next,              \* index of the branch the loop is at
  results,
  err                \* the error runSearch returns

searchVars == << pc, query, searchTopic, listed, branches, parsedQuery, semanticStatus,
                 ollamaResponds, embedRequests, queryEmbedding, useSemanticSearch,
                 keywordWeight, semanticWeight, next, results, err >>

VARIABLES
  call,              \* the package function called last, with its arguments
  outcome,           \* what that call returned
  file               \* the embedding file at the path the codec is given

libVars == << call, outcome, file >>

VARIABLES
  now,               \* time.Now(), in units of the branch timestamps
  snapshotBranches,  \* the snapshot/* branches of the repository, by name
  worktrees,         \* the runSave calls whose temporary worktree exists
  saveProc           \* the position and the locals of each runSave

repoVars == << now, snapshotBranches, worktrees, saveProc >>

\* everything runSearch leaves alone
outsideSearch == << libVars, repoVars >>

vars == << searchVars, libVars, repoVars >>

NoCall == [op |-> "none", args |-> <<>>]
NoOutcome == [err |-> "none", value |-> <<>>]
NoFile == [exists |-> FALSE, bytes |-> <<>>]

\* the processes that run save at the same time
SaveProcs == {1, 2}

NoSave ==
  [pc |-> "idle", topic |-> "", timestamp |-> 0, err |-> "none",
   metadataEmbedding |-> "",   \* metadata.Embedding of the struct in memory
   metaFile |-> "absent",      \* meta.json in the worktree
   embFile |-> NoFile,         \* embedding.bin in the worktree
   vec |-> <<>>,               \* the vector GenerateEmbedding returned
   embedErr |-> "none"]        \* why no embedding was stored

\* a repository without snapshots, and no save running
RepoIdle ==
  /\ now = 0
  /\ snapshotBranches = <<>>
  /\ worktrees = {}
  /\ saveProc = [p \in SaveProcs |-> NoSave]

\* no package function has been called and no embedding file written
LibIdle ==
  /\ call = NoCall
  /\ outcome = NoOutcome
  /\ file = NoFile

EmptyQuery == [required |-> <<>>, excluded |-> <<>>, phrases |-> <<>>, normal |-> <<>>]

\* runSearch is not running
SearchIdle ==
  /\ pc = "idle"
  /\ query = <<>>
  /\ searchTopic = ""
  /\ listed = 0
  /\ branches = <<>>
  /\ parsedQuery = EmptyQuery
  /\ semanticStatus = "untried"
  /\ ollamaResponds = FALSE
  /\ embedRequests = 0
  /\ queryEmbedding = <<>>
  /\ useSemanticSearch = FALSE
  /\ keywordWeight = 0
  /\ semanticWeight = 0
  /\ next = 1
  /\ results = <<>>
  /\ err = "none"

Init ==
  /\ pc = "start"
  /\ query \in Queries
  /\ searchTopic \in SearchTopics
  /\ listed = 0
  /\ branches = <<>>
  /\ parsedQuery = EmptyQuery
  /\ semanticStatus = "untried"
  /\ ollamaResponds = FALSE
  /\ embedRequests = 0
  /\ queryEmbedding = <<>>
  /\ useSemanticSearch = FALSE
  /\ keywordWeight = 0
  /\ semanticWeight = 0
  /\ next = 1
  /\ results = <<>>
  /\ err = "none"
  /\ LibIdle
  /\ RepoIdle

\* (similarity + 1) * 50 of a similarity that is not a number: a float64
\* that is neither below, nor equal to, nor above any number
NaNScore == NaN * ScoreUnit

\* the semantic part with hasEmbedding telling whether the metadata names an
\* embedding
SemanticAttemptReportingStored(useSemantic, qEmbedding, branch, tmpWritten) ==
  LET none == [semanticScore |-> 0, hasEmbedding |-> branch.meta.Embedding # NoString,
               usedSemantic |-> FALSE] IN
  IF useSemantic /\ branch.meta.Embedding # NoString /\ branch.embShown /\ tmpWritten
  THEN LET rd == ReadEmbedding(branch.embBytes) IN
       IF rd.err = "none"
       THEN LET cs == CosineSimilarity(qEmbedding, rd.vec) IN
            IF cs.err = "none"
            THEN [semanticScore |-> IF cs.value = NaN THEN NaNScore
                                    ELSE (cs.value + SimScale) * 50,
                  hasEmbedding |-> TRUE, usedSemantic |-> TRUE]
            ELSE none
       ELSE none
  ELSE none

\* the semantic part with the error of CosineSimilarity ignored
SemanticAttemptIgnoringError(useSemantic, qEmbedding, branch, tmpWritten) ==
  LET none == [semanticScore |-> 0, hasEmbedding |-> FALSE, usedSemantic |-> FALSE] IN
  IF useSemantic /\ branch.meta.Embedding # NoString /\ branch.embShown /\ tmpWritten
  THEN LET rd == ReadEmbedding(branch.embBytes) IN
       IF rd.err = "none"
       THEN LET cs == CosineSimilarity(qEmbedding, rd.vec) IN
            [semanticScore |-> IF cs.value = NaN THEN NaNScore
                               ELSE (cs.value + SimScale) * 50,
             hasEmbedding |-> TRUE, usedSemantic |-> TRUE]
       ELSE none
  ELSE none

\* the semantic part of one loop iteration: semanticScore (units of
\* 1/SimScale), hasEmbedding and usedSemantic
SemanticAttempt(useSemantic, qEmbedding, branch, tmpWritten) ==
  LET none == [semanticScore |-> 0, hasEmbedding |-> FALSE, usedSemantic |-> FALSE] IN
  IF useSemantic /\ branch.meta.Embedding # NoString
  THEN IF branch.embShown
       THEN IF tmpWritten
            THEN LET rd == ReadEmbedding(branch.embBytes) IN
                 IF rd.err = "none"
                 THEN LET cs == CosineSimilarity(qEmbedding, rd.vec) IN
                      IF cs.err = "none"
                      THEN [semanticScore |-> IF cs.value = NaN THEN NaNScore
                                              ELSE (cs.value + SimScale) * 50,
                            hasEmbedding |-> TRUE, usedSemantic |-> TRUE]
                      ELSE none
                 ELSE none
            ELSE none
       ELSE none
  ELSE none

\* the combined score with the keyword-only score brought to the 0-100 range too
FinalScoreNormalizingFallback(usedSemantic, keywordScore, semanticScore, kWeight, sWeight) ==
  LET half == (keywordScore * SimScale) \div 2
      normalizedKeyword == IF half > 100 * SimScale THEN 100 * SimScale ELSE half
  IN IF usedSemantic
     THEN kWeight * normalizedKeyword + sWeight * semanticScore
     ELSE WeightScale * normalizedKeyword

\* the combined score with the weighted formula also on the keyword-only path
FinalScoreAlwaysWeighted(usedSemantic, keywordScore, semanticScore, kWeight, sWeight) ==
  LET half == (keywordScore * SimScale) \div 2
      normalizedKeyword == IF half > 100 * SimScale THEN 100 * SimScale ELSE half
  IN kWeight * normalizedKeyword + sWeight * semanticScore

\* the combined score without the clamp of the normalized keyword score
FinalScoreUnclamped(usedSemantic, keywordScore, semanticScore, kWeight, sWeight) ==
  IF usedSemantic
  THEN kWeight * ((keywordScore * SimScale) \div 2) + sWeight * semanticScore
  ELSE keywordScore * ScoreUnit

\* the combined score, in units of 1/ScoreUnit
FinalScore(usedSemantic, keywordScore, semanticScore, kWeight, sWeight) ==
  IF usedSemantic
  THEN LET half == (keywordScore * SimScale) \div 2
           normalizedKeyword == IF half > 100 * SimScale THEN 100 * SimScale ELSE half
       IN kWeight * normalizedKeyword + sWeight * semanticScore
  ELSE keywordScore * ScoreUnit

\* inclusion of every candidate whose score is not negative
IncludedNonNegative(finalScore, keywordScore) == finalScore >= 0 \/ keywordScore >= 0

\* inclusion by the final score alone
IncludedFinalOnly(finalScore, keywordScore) == finalScore > 0

\* "only include results with some relevance"
Included(finalScore, keywordScore) == finalScore > 0 \/ keywordScore > 0

\* the less function with the comparison the wrong way round
LessAscending(ri, rj) == ri.Score < rj.Score

\* the less function handed to sort.Slice
Less(ri, rj) == ri.Score > rj.Score

\* the orders sort.Slice may leave the slice in: it is not a stable sort, so
\* every order in which no element is less than one before it
SortSlice(rs) ==
  { [i \in 1..Len(rs) |-> rs[p[i]]] :
      p \in { q \in Permutations(1..Len(rs)) :
                \A i, j \in 1..Len(rs) : i < j => ~Less(rs[q[j]], rs[q[i]]) } }

\* git.IsGitRepo, then parseSearchQuery
CheckRepo ==
  /\ pc = "start"
  /\ \E isRepo \in BOOLEAN :
       IF isRepo
       THEN /\ parsedQuery' = parseSearchQuery(query)
            /\ pc' = "list"
            /\ err' = err
       ELSE /\ err' = "not a git repository"
            /\ pc' = "done"
            /\ parsedQuery' = parsedQuery
  /\ UNCHANGED << query, searchTopic, listed, branches, semanticStatus, ollamaResponds,
                  embedRequests, queryEmbedding, useSemanticSearch, keywordWeight,
                  semanticWeight, next, results >>
  /\ UNCHANGED outsideSearch

\* git.ListBranches and the "No snapshots found" return
ListBranches ==
  /\ pc = "list"
  /\ \/ /\ err' = "failed to list branches"
        /\ pc' = "done"
        /\ listed' = listed
     \/ \E n \in 0..MaxBranches :
          /\ listed' = n
          /\ pc' = IF n = 0 THEN "done" ELSE "probe"
          /\ err' = err
  /\ UNCHANGED << query, searchTopic, branches, parsedQuery, semanticStatus,
                  ollamaResponds, embedRequests, queryEmbedding, useSemanticSearch,
                  keywordWeight, semanticWeight, next, results >>
  /\ UNCHANGED outsideSearch

\* the embedding requested whatever the probe said
ProbeIgnoringAvailability ==
  /\ pc = "probe"
  /\ \E enabled, available, clientMade \in BOOLEAN :
       semanticStatus' = IF enabled /\ available /\ clientMade THEN "probed" ELSE "untried"
  /\ pc' = "embed"
  /\ UNCHANGED << query, searchTopic, listed, branches, parsedQuery, ollamaResponds,
                  embedRequests, queryEmbedding, useSemanticSearch, keywordWeight,
                  semanticWeight, next, results, err >>
  /\ UNCHANGED outsideSearch

\* config.GetEmbeddingsEnabled() && ollama.IsAvailable(...), then ollama.NewClient;
\* every failure leaves useSemanticSearch false ("Using keyword search only")
Probe ==
  /\ pc = "probe"
  /\ \E enabled, available, clientMade \in BOOLEAN :
       IF ~enabled THEN semanticStatus' = "keyword" /\ pc' = "weights"
       ELSE IF ~available THEN semanticStatus' = "keyword" /\ pc' = "weights"
       ELSE IF ~clientMade THEN semanticStatus' = "keyword" /\ pc' = "weights"
       ELSE semanticStatus' = "probed" /\ pc' = "embed"
  /\ UNCHANGED << query, searchTopic, listed, branches, parsedQuery, ollamaResponds,
                  embedRequests, queryEmbedding, useSemanticSearch, keywordWeight,
                  semanticWeight, next, results, err >>
  /\ UNCHANGED outsideSearch

\* client.GenerateEmbedding up to the Embed call, which has no deadline
\* (context.Background()): the empty text is refused before any request
SendEmbed ==
  /\ pc = "embed"
  /\ IF query = NoString
     THEN /\ semanticStatus' = "keyword"
          /\ pc' = "weights"
          /\ UNCHANGED << embedRequests, ollamaResponds >>
     ELSE /\ embedRequests' = embedRequests + 1
          /\ \E answers \in BOOLEAN : ollamaResponds' = answers
          /\ pc' = "awaitEmbed"
          /\ UNCHANGED semanticStatus
  /\ UNCHANGED << query, searchTopic, listed, branches, parsedQuery, queryEmbedding,
                  useSemanticSearch, keywordWeight, semanticWeight, next, results, err >>
  /\ UNCHANGED outsideSearch

\* the Embed call returns: an error, no embeddings, or a vector
EmbedReturns ==
  /\ pc = "awaitEmbed"
  /\ ollamaResponds
  /\ \/ /\ semanticStatus' = "keyword"
        /\ UNCHANGED << queryEmbedding, useSemanticSearch >>
     \/ \E vec \in QueryEmbeddings :
          /\ queryEmbedding' = vec
          /\ useSemanticSearch' = TRUE
          /\ semanticStatus' = "hybrid"
  /\ pc' = "weights"
  /\ UNCHANGED << query, searchTopic, listed, branches, parsedQuery, ollamaResponds,
                  embedRequests, keywordWeight, semanticWeight, next, results, err >>
  /\ UNCHANGED outsideSearch

\* config.GetKeywordWeight, config.GetSemanticWeight
GetWeights ==
  /\ pc = "weights"
  /\ \E w \in ConfiguredWeights :
       /\ keywordWeight' = GetKeywordWeight(w[1])
       /\ semanticWeight' = GetSemanticWeight(w[2])
  /\ pc' = "loop"
  /\ UNCHANGED << query, searchTopic, listed, branches, parsedQuery, semanticStatus,
                  ollamaResponds, embedRequests, queryEmbedding, useSemanticSearch,
                  next, results, err >>
  /\ UNCHANGED outsideSearch

\* one iteration of the loop over the branches: parseSnapshotBranch, the topic
\* filter, gitShow and Unmarshal of meta.json, then the scoring
ScoreBranch ==
  /\ pc = "loop"
  /\ next <= listed
  /\ \E branch \in BranchPool :
       /\ branches' = Append(branches, branch)
       /\ LET rel == calculateRelevance(parsedQuery, branch.meta) IN
          IF \/ ~branch.loaded
             \/ (searchTopic # "" /\ branch.slug # searchTopic)
             \/ rel.exclude
          THEN results' = results
          ELSE \E tmpWritten \in BOOLEAN :
                 LET sem == SemanticAttempt(useSemanticSearch, queryEmbedding,
                                            branch, tmpWritten)
                     finalScore == FinalScore(sem.usedSemantic, rel.score,
                                              sem.semanticScore, keywordWeight,
                                              semanticWeight)
                 IN IF Included(finalScore, rel.score)
                    THEN results' = Append(results,
                           [Info |-> next, Score |-> finalScore,
                            KeywordScore |-> rel.score,
                            SemanticScore |-> sem.semanticScore,
                            HasEmbedding |-> sem.hasEmbedding,
                            UsedSemantic |-> sem.usedSemantic])
                    ELSE results' = results
  /\ next' = next + 1
  /\ UNCHANGED << pc, query, searchTopic, listed, parsedQuery, semanticStatus,
                  ollamaResponds, embedRequests, queryEmbedding, useSemanticSearch,
                  keywordWeight, semanticWeight, err >>
  /\ UNCHANGED outsideSearch

\* after the loop: "No snapshots match the search query"
NoMatches ==
  /\ pc = "loop"
  /\ next > listed
  /\ Len(results) = 0
  /\ pc' = "done"
  /\ UNCHANGED << query, searchTopic, listed, branches, parsedQuery, semanticStatus,
                  ollamaResponds, embedRequests, queryEmbedding, useSemanticSearch,
                  keywordWeight, semanticWeight, next, results, err >>
  /\ UNCHANGED outsideSearch

\* after the loop: sort.Slice and the output of the results
SortAndOutput ==
  /\ pc = "loop"
  /\ next > listed
  /\ Len(results) > 0
  /\ results' \in SortSlice(results)
  /\ pc' = "done"
  /\ UNCHANGED << query, searchTopic, listed, branches, parsedQuery, semanticStatus,
                  ollamaResponds, embedRequests, queryEmbedding, useSemanticSearch,
                  keywordWeight, semanticWeight, next, err >>
  /\ UNCHANGED outsideSearch

Next ==
  \/ CheckRepo
  \/ ListBranches
  \/ Probe
  \/ SendEmbed
  \/ EmbedReturns
  \/ GetWeights
  \/ ScoreBranch
  \/ NoMatches
  \/ SortAndOutput

Spec == Init /\ [][Next]_vars

\* the scheduler runs the command whenever it has a step to take
LiveSpec == Spec /\ WF_vars(Next)

(***************************************************************************)
(* The codec on one path: calls of WriteEmbedding and ReadEmbedding, and   *)
(* other writers of the same file                                          *)
(***************************************************************************)

MaxVecLen == 2

\* the float64 values the callers pass
CodecValues == {-2, 0, 300}

\* the vectors of at most n elements over a set of values
Vectors(values, n) == UNION { [1..k -> values] : k \in 0..n }

\* contents no WriteEmbedding left behind: five bytes, and nothing
ForeignFiles == { <<1, 2, 3, 4, 5>>, <<>> }

CodecInit == SearchIdle /\ LibIdle /\ RepoIdle

\* WriteEmbedding(path, vec): the length check, os.Create, one binary.Write
\* per value; os.Create and every binary.Write may fail
CallWriteEmbedding ==
  /\ \E vec \in Vectors(CodecValues, MaxVecLen) :
       /\ call' = [op |-> "WriteEmbedding", args |-> <<vec>>]
       /\ IF Len(vec) = 0
          THEN /\ outcome' = [err |-> "empty", value |-> <<>>]
               /\ file' = file
          ELSE \E created \in BOOLEAN, written \in 0..Len(vec) :
                 IF ~created
                 THEN /\ outcome' = [err |-> "create", value |-> <<>>]
                      /\ file' = file
                 ELSE /\ file' = [exists |-> TRUE,
                                  bytes |-> EncodeVector(SubSeq(vec, 1, written))]
                      /\ outcome' = [err |-> IF written = Len(vec) THEN "none" ELSE "write",
                                     value |-> <<>>]
  /\ UNCHANGED << searchVars, repoVars >>

\* ReadEmbedding(path): os.Open, then the size checks and the decoding
CallReadEmbedding ==
  /\ call' = [op |-> "ReadEmbedding", args |-> <<>>]
  /\ \E opened \in BOOLEAN :
       IF ~file.exists \/ ~opened
       THEN outcome' = [err |-> "open", value |-> <<>>]
       ELSE LET rd == ReadEmbedding(file.bytes) IN
            outcome' = [err |-> rd.err, value |-> rd.vec]
  /\ file' = file
  /\ UNCHANGED << searchVars, repoVars >>

\* os.WriteFile on the same path by another writer
CallWriteFile ==
  /\ \E data \in ForeignFiles :
       /\ call' = [op |-> "WriteFile", args |-> <<data>>]
       /\ file' = [exists |-> TRUE, bytes |-> data]
  /\ outcome' = NoOutcome
  /\ UNCHANGED << searchVars, repoVars >>

CodecNext ==
  \/ CallWriteEmbedding
  \/ CallReadEmbedding
  \/ CallWriteFile

CodecSpec == CodecInit /\ [][CodecNext]_vars

(***************************************************************************)
(* Calls of the vector functions                                           *)
(***************************************************************************)

\* the elements of the vectors passed: the squares of two elements of
\* magnitude 100 add up to more than MaxFloat
MathValues == {-100, 0, 1, 100}

\* the two vectors a caller holds, before it calls
SimilarityInit ==
  /\ SearchIdle
  /\ \E a \in Vectors(MathValues, MaxVecLen), b \in Vectors(MathValues, MaxVecLen) :
       call = [op |-> "none", args |-> <<a, b>>]
  /\ outcome = NoOutcome
  /\ file = NoFile
  /\ RepoIdle

CallCosineSimilarity ==
  /\ call.op = "none"
  /\ LET cs == CosineSimilarity(call.args[1], call.args[2]) IN
     /\ call' = [call EXCEPT !.op = "CosineSimilarity"]
     /\ outcome' = [err |-> cs.err, value |-> cs.value]
  /\ UNCHANGED << searchVars, file, repoVars >>

CallDotProduct ==
  /\ call.op = "none"
  /\ LET dp == DotProduct(call.args[1], call.args[2]) IN
     /\ call' = [call EXCEPT !.op = "DotProduct"]
     /\ outcome' = [err |-> dp.err, value |-> dp.value]
  /\ UNCHANGED << searchVars, file, repoVars >>

SimilarityNext ==
  \/ CallCosineSimilarity
  \/ CallDotProduct

SimilaritySpec == SimilarityInit /\ [][SimilarityNext]_vars

(***************************************************************************)
(* runSave, run by several processes on one repository                     *)
(***************************************************************************)

MaxMinute == 1

\* what the topic of a save resolves to: nothing, or a slug
SaveTopics == {"", "t"}

\* what the embedding service may answer with: no component, a vector, a
\* vector that is not a number
EmbeddingAnswers == { <<>>, <<1, 0>>, <<NaN>> }

\* models.BranchName(timestamp, topic)
BranchName(timestamp, topic) == << timestamp, topic >>

\* the branch git.CreateBranch makes: the current commit, no snapshot commit yet
NewBranch == [commits |-> 0, preserve |-> FALSE, metaFile |-> "absent", embFile |-> NoFile]

\* f with the value v at the new key k
Extend(f, k, v) == [x \in DOMAIN f \cup {k} |-> IF x = k THEN v ELSE f[x]]

SaveInit == SearchIdle /\ LibIdle /\ RepoIdle

\* from the start of runSave to the tree hash: repository, topic, mode and
\* current state
SaveStart ==
  \E p \in SaveProcs, topic \in SaveTopics, ok \in BOOLEAN :
    /\ saveProc[p].pc = "idle"
    /\ saveProc' = [saveProc EXCEPT ![p] =
         IF ~ok THEN [NoSave EXCEPT !.pc = "done", !.err = "precondition"]
         ELSE IF topic = "" THEN [NoSave EXCEPT !.pc = "done", !.err = "topic"]
         ELSE [NoSave EXCEPT !.pc = "check", !.topic = topic]]
    /\ UNCHANGED << searchVars, libVars, now, snapshotBranches, worktrees >>

\* runSave without the test for an existing branch
SaveCheckSkipping ==
  \E p \in SaveProcs :
    /\ saveProc[p].pc = "check"
    /\ saveProc' = [saveProc EXCEPT ![p].pc = "create", ![p].timestamp = now]
    /\ UNCHANGED << searchVars, libVars, now, snapshotBranches, worktrees >>

\* time.Now(), models.BranchName and git.BranchExists
SaveCheck ==
  \E p \in SaveProcs :
    /\ saveProc[p].pc = "check"
    /\ saveProc' = [saveProc EXCEPT ![p] =
         IF BranchName(now, saveProc[p].topic) \in DOMAIN snapshotBranches
         THEN [@ EXCEPT !.pc = "done", !.timestamp = now, !.err = "exists"]
         ELSE [@ EXCEPT !.pc = "create", !.timestamp = now]]
    /\ UNCHANGED << searchVars, libVars, now, snapshotBranches, worktrees >>

\* git.CreateBranch: git refuses a name that is taken
SaveCreateBranch ==
  \E p \in SaveProcs :
    /\ saveProc[p].pc = "create"
    /\ LET name == BranchName(saveProc[p].timestamp, saveProc[p].topic) IN
       IF name \in DOMAIN snapshotBranches
       THEN /\ saveProc' = [saveProc EXCEPT ![p].pc = "done", ![p].err = "create"]
            /\ snapshotBranches' = snapshotBranches
       ELSE /\ saveProc' = [saveProc EXCEPT ![p].pc = "worktree"]
            /\ snapshotBranches' = Extend(snapshotBranches, name, NewBranch)
    /\ UNCHANGED << searchVars, libVars, now, worktrees >>

\* git.CreateWorktree
SaveCreateWorktree ==
  \E p \in SaveProcs, ok \in BOOLEAN :
    /\ saveProc[p].pc = "worktree"
    /\ IF ok
       THEN /\ saveProc' = [saveProc EXCEPT ![p].pc = "files"]
            /\ worktrees' = worktrees \cup {p}
       ELSE /\ saveProc' = [saveProc EXCEPT ![p].pc = "done", ![p].err = "worktree"]
            /\ worktrees' = worktrees
    /\ UNCHANGED << searchVars, libVars, now, snapshotBranches >>

\* notes.md, the metadata and meta.json, then the test of --no-embed and
\* embeddings.enabled
SaveWriteFiles ==
  \E p \in SaveProcs, written, saveNoEmbed, enabled \in BOOLEAN :
    /\ saveProc[p].pc = "files"
    /\ saveProc' = [saveProc EXCEPT ![p] =
         IF ~written THEN [@ EXCEPT !.pc = "cleanup", !.err = "files"]
         ELSE IF ~saveNoEmbed /\ enabled
              THEN [@ EXCEPT !.pc = "embed", !.metaFile = "plain"]
              ELSE [@ EXCEPT !.pc = "commit", !.metaFile = "plain",
                             !.embedErr = "skipped"]]
    /\ UNCHANGED << searchVars, libVars, now, snapshotBranches, worktrees >>

\* generateEmbedding with the vector written whether or not it is valid
SaveGenerateUnvalidated ==
  \E p \in SaveProcs, available, clientMade, modelPresent, answered \in BOOLEAN,
     answer \in EmbeddingAnswers :
    /\ saveProc[p].pc = "embed"
    /\ saveProc' = [saveProc EXCEPT ![p] =
         IF ~available THEN [@ EXCEPT !.pc = "commit", !.embedErr = "unavailable"]
         ELSE IF ~clientMade THEN [@ EXCEPT !.pc = "commit", !.embedErr = "client"]
         ELSE IF ~modelPresent THEN [@ EXCEPT !.pc = "commit", !.embedErr = "model"]
         ELSE IF ~answered THEN [@ EXCEPT !.pc = "commit", !.embedErr = "generate"]
         ELSE [@ EXCEPT !.pc = "writeVec", !.vec = answer]]
    /\ UNCHANGED << searchVars, libVars, now, snapshotBranches, worktrees >>

\* generateEmbedding up to ValidateEmbedding: ollama.IsAvailable,
\* ollama.NewClient, client.CheckModel, client.GenerateEmbedding; runSave only
\* warns of an error and goes on
SaveGenerate ==
  \E p \in SaveProcs, available, clientMade, modelPresent, answered \in BOOLEAN,
     answer \in EmbeddingAnswers :
    /\ saveProc[p].pc = "embed"
    /\ saveProc' = [saveProc EXCEPT ![p] =
         IF ~available THEN [@ EXCEPT !.pc = "commit", !.embedErr = "unavailable"]
         ELSE IF ~clientMade THEN [@ EXCEPT !.pc = "commit", !.embedErr = "client"]
         ELSE IF ~modelPresent THEN [@ EXCEPT !.pc = "commit", !.embedErr = "model"]
         ELSE IF ~answered THEN [@ EXCEPT !.pc = "commit", !.embedErr = "generate"]
         ELSE IF ValidateEmbedding(answer) # "none"
              THEN [@ EXCEPT !.pc = "commit", !.embedErr = "invalid"]
         ELSE [@ EXCEPT !.pc = "writeVec", !.vec = answer]]
    /\ UNCHANGED << searchVars, libVars, now, snapshotBranches, worktrees >>

\* embeddings.WriteEmbedding to embedding.bin in the worktree: it may fail
\* before os.Create, or after it with the file begun
SaveWriteEmbedding ==
  \E p \in SaveProcs, created, complete \in BOOLEAN :
    /\ saveProc[p].pc = "writeVec"
    /\ saveProc' = [saveProc EXCEPT ![p] =
         IF Len(saveProc[p].vec) = 0 \/ ~created
         THEN [@ EXCEPT !.pc = "commit", !.embedErr = "write"]
         ELSE IF ~complete
              THEN [@ EXCEPT !.pc = "commit", !.embedErr = "write",
                             !.embFile = [bytes |-> <<>>, exists |-> TRUE]]
         ELSE [@ EXCEPT !.pc = "setRef",
                        !.embFile = [bytes |-> EncodeVector(saveProc[p].vec),
                                     exists |-> TRUE]]]
    /\ UNCHANGED << searchVars, libVars, now, snapshotBranches, worktrees >>

\* metadata.Embedding = "embedding.bin" and the second write of meta.json; a
\* failed os.WriteFile leaves the file as it was or truncated
SaveSetReference ==
  \E p \in SaveProcs, written, truncated \in BOOLEAN :
    /\ saveProc[p].pc = "setRef"
    /\ saveProc' = [saveProc EXCEPT ![p] =
         IF written
         THEN [@ EXCEPT !.pc = "commit", !.metadataEmbedding = "embedding.bin",
                        !.metaFile = "referencing"]
         ELSE [@ EXCEPT !.pc = "commit", !.metadataEmbedding = "embedding.bin",
                        !.metaFile = IF truncated THEN "truncated" ELSE "plain",
                        !.embedErr = "update"]]
    /\ UNCHANGED << searchVars, libVars, now, snapshotBranches, worktrees >>

\* an error return after the worktree was made: the deferred
\* git.RemoveWorktree
SaveCleanup ==
  \E p \in SaveProcs :
    /\ saveProc[p].pc = "cleanup"
    /\ saveProc' = [saveProc EXCEPT ![p].pc = "done"]
    /\ worktrees' = worktrees \ {p}
    /\ UNCHANGED << searchVars, libVars, now, snapshotBranches >>

\* the mode handling with git add of the research directory, git.CommitInDir,
\* and the deferred git.RemoveWorktree
SaveCommit ==
  \E p \in SaveProcs, ok \in BOOLEAN :
    /\ saveProc[p].pc = "commit"
    /\ LET name == BranchName(saveProc[p].timestamp, saveProc[p].topic) IN
       IF ok
       THEN /\ saveProc' = [saveProc EXCEPT ![p].pc = "done"]
            /\ snapshotBranches' =
                 [snapshotBranches EXCEPT ![name].commits = @ + 1,
                                          ![name].metaFile = saveProc[p].metaFile,
                                          ![name].embFile = saveProc[p].embFile]
       ELSE /\ saveProc' = [saveProc EXCEPT ![p].pc = "done", ![p].err = "commit"]
            /\ snapshotBranches' = snapshotBranches
    /\ worktrees' = worktrees \ {p}
    /\ UNCHANGED << searchVars, libVars, now >>

\* the command exits; the process may run save again
SaveReturn ==
  \E p \in SaveProcs :
    /\ saveProc[p].pc = "done"
    /\ saveProc' = [saveProc EXCEPT ![p] = NoSave]
    /\ UNCHANGED << searchVars, libVars, now, snapshotBranches, worktrees >>

\* the clock reaches the next timestamp
Tick ==
  /\ now < MaxMinute
  /\ now' = now + 1
  /\ UNCHANGED << searchVars, libVars, snapshotBranches, worktrees, saveProc >>

SaveNext ==
  \/ SaveStart
  \/ SaveCheck
  \/ SaveCreateBranch
  \/ SaveCreateWorktree
  \/ SaveWriteFiles
  \/ SaveGenerate
  \/ SaveWriteEmbedding
  \/ SaveSetReference
  \/ SaveCleanup
  \/ SaveCommit
  \/ SaveReturn
  \/ Tick

SaveSpec == SaveInit /\ [][SaveNext]_vars

(***************************************************************************)
(* runPrune on a repository with snapshots                                 *)
(***************************************************************************)

\* retention.days, in units of the branch timestamps
RetentionDays == 1

PruneTopics == {"t", "u"}

\* the names a snapshot branch of the repository may have
PruneNames == { BranchName(ts, topic) : ts \in 0..MaxMinute, topic \in PruneTopics }

\* the repositories prune is run on: any of the names, each branch with one
\* snapshot commit, with or without a preserve tag in its metadata
PruneInit ==
  /\ SearchIdle
  /\ LibIdle
  /\ now = MaxMinute + RetentionDays
  /\ \E names \in SUBSET PruneNames :
       snapshotBranches \in [names -> { [commits |-> 1, preserve |-> t] : t \in BOOLEAN }]
  /\ worktrees = {}
  /\ saveProc = [p \in SaveProcs |-> NoSave]

\* toPrune: the branches without a preserve tag whose timestamp is before
\* the cutoff
ToPrune(cutoffDate) ==
  { name \in DOMAIN snapshotBranches :
      ~snapshotBranches[name].preserve /\ name[1] < cutoffDate }

\* runPrune with the values of the flags --force and --dry-run
runPrune ==
  \E force \in BOOLEAN, dryRun \in BOOLEAN, isRepo \in BOOLEAN, listOK \in BOOLEAN :
    LET cutoffDate == now - RetentionDays
        toPrune == ToPrune(cutoffDate)
    IN /\ call' = [op |-> "runPrune", args |-> << force, dryRun >>]
       /\ IF ~isRepo
          THEN /\ outcome' = [err |-> "not a git repository", value |-> << {}, {} >>]
               /\ snapshotBranches' = snapshotBranches
          ELSE IF ~listOK
          THEN /\ outcome' = [err |-> "failed to list branches", value |-> << {}, {} >>]
               /\ snapshotBranches' = snapshotBranches
          ELSE IF force /\ ~dryRun
          THEN \E failed \in SUBSET toPrune :
                 /\ snapshotBranches' =
                      [name \in DOMAIN snapshotBranches \ (toPrune \ failed) |->
                         snapshotBranches[name]]
                 /\ outcome' = [err |-> "none", value |-> << toPrune \ failed, failed >>]
          ELSE /\ outcome' = [err |-> "none", value |-> << {}, {} >>]
               /\ snapshotBranches' = snapshotBranches
       /\ UNCHANGED << searchVars, file, now, worktrees, saveProc >>

PruneNext ==
  \/ runPrune

PruneSpec == PruneInit /\ [][PruneNext]_vars

(***************************************************************************)
(* Calls of calculateRelevance on a parsed query                           *)
(***************************************************************************)

MetaRepeated == Metadata(<<"a", "a", "a">>, NoString, <<>>, NoString)

\* the queries of runSearch, a term that overlaps itself, and repeated terms
RelevanceQueries ==
  Queries \cup { <<"a", "a">>, <<"a", " ", "a">>, <<"+", "a", " ", "a">> }

RelevanceMetadata ==
  { MetaTopicA, MetaNotesAA, MetaPhraseTopic, MetaPhraseNotes, MetaScattered,
    MetaRepeated }

\* a query string and the metadata of a snapshot, before the call
RelevanceInit ==
  /\ SearchIdle
  /\ \E q \in RelevanceQueries, metadata \in RelevanceMetadata :
       call = [op |-> "none", args |-> <<q, metadata>>]
  /\ outcome = NoOutcome
  /\ file = NoFile
  /\ RepoIdle

\* parseSearchQuery, then calculateRelevance
CallCalculateRelevance ==
  /\ call.op = "none"
  /\ LET rel == calculateRelevance(parseSearchQuery(call.args[1]), call.args[2]) IN
     /\ call' = [call EXCEPT !.op = "calculateRelevance"]
     /\ outcome' = [err |-> "none", value |-> rel]
  /\ UNCHANGED << searchVars, file, repoVars >>

RelevanceNext ==
  \/ CallCalculateRelevance

RelevanceSpec == RelevanceInit /\ [][RelevanceNext]_vars

(***************************************************************************)
(* Calls of parseSearchQuery                                               *)
(***************************************************************************)

MaxQueryLen == 4

\* the characters of a query: a lowercase and an uppercase letter, the two
\* prefixes, the quote and the space
QueryChars == {"a", "B", "+", "-", "\"", " "}

\* every query of at most MaxQueryLen characters, before the call
ParserInit ==
  /\ SearchIdle
  /\ \E q \in Vectors(QueryChars, MaxQueryLen) : call = [op |-> "none", args |-> <<q>>]
  /\ outcome = NoOutcome
  /\ file = NoFile
  /\ RepoIdle

CallParseSearchQuery ==
  /\ call.op = "none"
  /\ call' = [call EXCEPT !.op = "parseSearchQuery"]
  /\ outcome' = [err |-> "none", value |-> parseSearchQuery(call.args[1])]
  /\ UNCHANGED << searchVars, file, repoVars >>

ParserNext ==
  \/ CallParseSearchQuery

ParserSpec == ParserInit /\ [][ParserNext]_vars

(***************************************************************************)
(* The semantic part of one loop iteration, over the stored embeddings a     *)
(* branch may hold                                                           *)
(***************************************************************************)

\* a branch whose embedding.bin decodes to components whose products with the
\* query embedding exceed the largest float64
OverflowingBranch == Branch(TRUE, "p", MetaNotesAA, TRUE, EncodeVector(<<5000, 5000>>))

SemanticPool == BranchPool \cup {OverflowingBranch}

\* useSemanticSearch, queryEmbedding, the branch and whether os.WriteFile of
\* the temporary file succeeded, before the attempt
SemanticInit ==
  /\ SearchIdle
  /\ \E useSemantic, tmpWritten \in BOOLEAN, qEmbedding \in QueryEmbeddings,
        branch \in SemanticPool :
       call = [op |-> "none", args |-> <<useSemantic, qEmbedding, branch, tmpWritten>>]
  /\ outcome = NoOutcome
  /\ file = NoFile
  /\ RepoIdle

CallSemanticAttempt ==
  /\ call.op = "none"
  /\ call' = [call EXCEPT !.op = "SemanticAttempt"]
  /\ outcome' = [err |-> "none",
                 value |-> SemanticAttempt(call.args[1], call.args[2], call.args[3],
                                           call.args[4])]
  /\ UNCHANGED << searchVars, file, repoVars >>

SemanticNext ==
  \/ CallSemanticAttempt

SemanticSpec == SemanticInit /\ [][SemanticNext]_vars

(***************************************************************************)
(* Properties                                                              *)
(***************************************************************************)

\* branch j passes the checks that come before calculateRelevance
Considered(j) ==
  /\ branches[j].loaded
  /\ (searchTopic = "" \/ branches[j].slug = searchTopic)

InResults(j) == \E i \in 1..Len(results) : results[i].Info = j

Blob(j) == SearchableText(branches[j].meta)

\* the stored embedding of branch j can be shown, decodes, has the dimension
\* of the query embedding and is not the zero vector
StoredEmbeddingUsable(j) ==
  /\ branches[j].meta.Embedding # NoString
  /\ branches[j].embShown
  /\ Len(branches[j].embBytes) > 0
  /\ Len(branches[j].embBytes) % BytesPerFloat = 0
  /\ Len(branches[j].embBytes) = BytesPerFloat * Len(queryEmbedding)
  /\ \E i \in 1..Len(queryEmbedding) :
        Float64FromBytes(SubSeq(branches[j].embBytes, BytesPerFloat * (i - 1) + 1,
                                BytesPerFloat * i)) # 0

\* C1: a branch whose blob contains an excluded term of the query is never
\* in the results, whatever else matches and whether or not semantic
\* scoring is active
C1_ExclusionGate ==
  LET sq == parseSearchQuery(query) IN
  \A i \in 1..Len(results) :
     \A k \in 1..Len(sq.excluded) : ~Contains(Blob(results[i].Info), sq.excluded[k])

C1_Witness ==
  /\ pc = "done"
  /\ useSemanticSearch
  /\ LET sq == parseSearchQuery(query) IN
     \E j \in 1..Len(branches) :
        /\ Considered(j)
        /\ StoredEmbeddingUsable(j)
        /\ \E k \in 1..Len(sq.excluded) : Contains(Blob(j), sq.excluded[k])
        /\ \E k \in 1..Len(sq.normal) : Contains(Blob(j), sq.normal[k])
        /\ ~InResults(j)

\* C2: a branch whose blob lacks a required term of the query gets (0, true)
\* from calculateRelevance and is never in the results
C2_RequiredGate ==
  LET sq == parseSearchQuery(query) IN
  /\ \A i \in 1..Len(results) :
        \A k \in 1..Len(sq.required) : Contains(Blob(results[i].Info), sq.required[k])
  /\ \A j \in 1..Len(branches) :
        (\E k \in 1..Len(sq.required) : ~Contains(Blob(j), sq.required[k]))
        => calculateRelevance(sq, branches[j].meta) = [score |-> 0, exclude |-> TRUE]

C2_Witness ==
  /\ pc = "done"
  /\ useSemanticSearch
  /\ LET sq == parseSearchQuery(query) IN
     \E j \in 1..Len(branches) :
        /\ Considered(j)
        /\ StoredEmbeddingUsable(j)
        /\ CosineSimilarity(queryEmbedding, ReadEmbedding(branches[j].embBytes).vec).value
             = SimScale
        /\ \E k \in 1..Len(sq.required) : ~Contains(Blob(j), sq.required[k])
        /\ \E k \in 1..Len(sq.normal) : Contains(Blob(j), sq.normal[k])
        /\ ~InResults(j)

\* C3: a branch whose blob lacks a phrase of the query as a contiguous
\* substring gets (0, true) and is never in the results
C3_PhraseGate ==
  LET sq == parseSearchQuery(query) IN
  /\ \A i \in 1..Len(results) :
        \A k \in 1..Len(sq.phrases) : Contains(Blob(results[i].Info), sq.phrases[k])
  /\ \A j \in 1..Len(branches) :
        (\E k \in 1..Len(sq.phrases) : ~Contains(Blob(j), sq.phrases[k]))
        => calculateRelevance(sq, branches[j].meta) = [score |-> 0, exclude |-> TRUE]

\* the words of the phrase are all in the blob, but not next to each other
C3_Witness ==
  /\ pc = "done"
  /\ LET sq == parseSearchQuery(query) IN
     \E j \in 1..Len(branches) :
        /\ Considered(j)
        /\ \E k \in 1..Len(sq.phrases) :
              /\ ~Contains(Blob(j), sq.phrases[k])
              /\ Len(Fields(sq.phrases[k])) > 1
              /\ \A w \in 1..Len(Fields(sq.phrases[k])) :
                    Contains(Blob(j), Fields(sq.phrases[k])[w])
        /\ \E k \in 1..Len(sq.normal) : Contains(Blob(j), sq.normal[k])
        /\ ~InResults(j)

\* the call announced "Using keyword search only"
Degraded == semanticStatus = "keyword"

\* the branches keyword scoring alone returns
LexicalMatches ==
  LET sq == parseSearchQuery(query) IN
  { j \in 1..Len(branches) :
      LET rel == calculateRelevance(sq, branches[j].meta) IN
      Considered(j) /\ ~rel.exclude /\ rel.score > 0 }

\* C4: when embeddings are disabled, the service is unavailable, no client
\* could be made or the query embedding failed, the call has no error, no
\* result used semantic scoring, every final score is the raw keyword score,
\* and the results at the end are exactly the keyword matches
C4_CallLevelDegradation ==
  Degraded =>
    /\ err = "none"
    /\ ~useSemanticSearch
    /\ LET sq == parseSearchQuery(query) IN
       \A i \in 1..Len(results) :
          /\ ~results[i].UsedSemantic
          /\ results[i].SemanticScore = 0
          /\ results[i].KeywordScore
               = calculateRelevance(sq, branches[results[i].Info].meta).score
          /\ results[i].Score = results[i].KeywordScore * ScoreUnit
    /\ pc = "done" =>
          LET matches == LexicalMatches IN
          /\ { results[i].Info : i \in 1..Len(results) } = matches
          /\ Len(results) = Cardinality(matches)

C4_Witness ==
  /\ pc = "done"
  /\ semanticStatus = "keyword"
  /\ embedRequests = 1
  /\ Len(results) = 2
  /\ \E i \in 1..Len(results) :
        /\ branches[results[i].Info].meta.Embedding # NoString
        /\ branches[results[i].Info].embShown
        /\ ReadEmbedding(branches[results[i].Info].embBytes).err = "none"

\* C5: in a call with a query embedding, a branch whose embedding is absent,
\* cannot be shown, does not decode, has another dimension or is the zero
\* vector is scored by keywords alone, the call has no error, and every
\* other result is scored from its own branch
C5_PerCandidateFallback ==
  useSemanticSearch =>
    /\ err = "none"
    /\ LET sq == parseSearchQuery(query) IN
       \A i \in 1..Len(results) :
          LET j == results[i].Info IN
          /\ results[i].KeywordScore = calculateRelevance(sq, branches[j].meta).score
          /\ ~StoredEmbeddingUsable(j) =>
                /\ ~results[i].UsedSemantic
                /\ results[i].Score = results[i].KeywordScore * ScoreUnit
          /\ results[i].UsedSemantic =>
                results[i].SemanticScore
                  = (CosineSimilarity(queryEmbedding,
                                      ReadEmbedding(branches[j].embBytes).vec).value
                     + SimScale) * 50

\* a result that fell back beside one that was scored semantically
C5_Witness ==
  /\ pc = "done"
  /\ useSemanticSearch
  /\ \E i, k \in 1..Len(results) :
        /\ branches[results[i].Info].meta.Embedding # NoString
        /\ branches[results[i].Info].embShown
        /\ ~StoredEmbeddingUsable(results[i].Info)
        /\ ~results[i].UsedSemantic
        /\ results[k].UsedSemantic

SortedDescending(rs) == \A i \in 1..(Len(rs) - 1) : rs[i].Score >= rs[i + 1].Score

IsPermutationOf(as, bs) ==
  /\ Len(as) = Len(bs)
  /\ \E p \in Permutations(1..Len(as)) : \A i \in 1..Len(as) : bs[i] = as[p[i]]

C7_TieStability ==
  pc = "done" =>
    \A i, j \in 1..Len(results) :
       (i < j /\ results[i].Score = results[j].Score) => results[i].Info < results[j].Info

\* C8: a semantically scored result has final score
\* keywordWeight * min(keywordScore / 2, 100) + semanticWeight * semanticScore;
\* with weights 0.3 / 0.7, keyword score 20 and semantic score 80 it is 59.0
C8_WeightedCombination ==
  \A i \in 1..Len(results) :
     results[i].UsedSemantic =>
       /\ 2 * results[i].Score
            = keywordWeight * (IF results[i].KeywordScore > 200
                               THEN 200 * SimScale
                               ELSE results[i].KeywordScore * SimScale)
              + 2 * semanticWeight * results[i].SemanticScore
       /\ ( /\ keywordWeight = 3
            /\ semanticWeight = 7
            /\ results[i].KeywordScore = 20
            /\ results[i].SemanticScore = 80 * SimScale )
          => results[i].Score = 59 * ScoreUnit

\* the example of the claim
C8_Witness ==
  /\ pc = "done"
  /\ keywordWeight = 3
  /\ semanticWeight = 7
  /\ \E i \in 1..Len(results) :
        /\ results[i].UsedSemantic
        /\ results[i].KeywordScore = 20
        /\ results[i].SemanticScore = 80 * SimScale
        /\ results[i].Score = 59 * ScoreUnit

\* C9: a result has used_semantic only if the call got a query embedding and
\* the branch's stored embedding was shown, decoded without error, has the
\* dimension of the query embedding, and CosineSimilarity returned no error
C9_UsedSemanticOnlyIf ==
  \A i \in 1..Len(results) :
     results[i].UsedSemantic =>
       LET branch == branches[results[i].Info] IN
       /\ useSemanticSearch
       /\ semanticStatus = "hybrid"
       /\ queryEmbedding \in QueryEmbeddings
       /\ branch.meta.Embedding # NoString
       /\ branch.embShown
       /\ ReadEmbedding(branch.embBytes).err = "none"
       /\ Len(ReadEmbedding(branch.embBytes).vec) = Len(queryEmbedding)
       /\ CosineSimilarity(queryEmbedding, ReadEmbedding(branch.embBytes).vec).err = "none"

C9_Witness ==
  /\ pc = "done"
  /\ \E i, k \in 1..Len(results) :
        /\ results[i].UsedSemantic
        /\ ~results[k].UsedSemantic
        /\ Len(ReadEmbedding(branches[results[k].Info].embBytes).vec) = 1

\* C10: a search call always eventually returns, also when the embedding
\* service stops answering after the availability probe succeeded
C10_BoundedWait == <>(pc = "done")


\* C11: a ReadEmbedding that follows a successful WriteEmbedding(path, v) on
\* the same path returns, when the file opens, no error and exactly v: the
\* same length and the same elements, whatever was written before
C11_RoundTrip ==
  [][ ( /\ call.op = "WriteEmbedding"
        /\ outcome.err = "none"
        /\ call'.op = "ReadEmbedding"
        /\ outcome'.err # "open" )
      => ( /\ outcome'.err = "none"
           /\ outcome'.value = call.args[1] ) ]_vars

\* a two-element vector with a negative and a two-byte value, read back from
\* the file a WriteEmbedding left
C11_Witness ==
  /\ call.op = "ReadEmbedding"
  /\ outcome.err = "none"
  /\ outcome.value = <<-2, 300>>
  /\ file.bytes = EncodeVector(<<-2, 300>>)

\* C12: a successful WriteEmbedding of n values leaves exactly 8*n bytes;
\* ReadEmbedding of a file that opens fails when the file is empty, fails when
\* its size is not a multiple of 8, and otherwise returns size/8 elements;
\* WriteEmbedding of an empty vector fails and leaves the file as it was
C12_SizesAndEmptyWrite ==
  [][ /\ ( call'.op = "WriteEmbedding" /\ outcome'.err = "none" )
         => ( file'.exists /\ Len(file'.bytes) = BytesPerFloat * Len(call'.args[1]) )
      /\ ( call'.op = "ReadEmbedding" /\ outcome'.err # "open" )
         => LET size == Len(file.bytes) IN
            /\ size = 0 => outcome'.err # "none"
            /\ size % BytesPerFloat # 0 => outcome'.err # "none"
            /\ ( size # 0 /\ size % BytesPerFloat = 0 )
               => ( outcome'.err = "none" /\ Len(outcome'.value) = size \div BytesPerFloat )
      /\ ( call'.op = "WriteEmbedding" /\ call'.args[1] = <<>> )
         => ( outcome'.err # "none" /\ file' = file ) ]_vars

\* an empty vector was refused while the path held a two-element embedding
C12_Witness ==
  /\ call.op = "WriteEmbedding"
  /\ call.args[1] = <<>>
  /\ outcome.err = "empty"
  /\ file.bytes = EncodeVector(<<300, -2>>)

\* some element of v is not zero
NonZero(v) == \E i \in 1..Len(v) : v[i] # 0

\* C13: for non-empty vectors a and b of equal length, both non-zero,
\* CosineSimilarity returns no error and a value r with -1 <= r <= 1
C13_CosineBounds ==
  ( /\ call.op = "CosineSimilarity"
    /\ Len(call.args[1]) = Len(call.args[2])
    /\ Len(call.args[1]) > 0
    /\ NonZero(call.args[1])
    /\ NonZero(call.args[2]) )
  => ( /\ outcome.err = "none"
       /\ outcome.value # NaN
       /\ -SimScale <= outcome.value
       /\ outcome.value <= SimScale )

\* C14: DotProduct and CosineSimilarity return an error and no value when the
\* lengths differ or the vectors are empty, CosineSimilarity also when the
\* magnitude of either vector is 0; in every other case they return a value
\* without error, DotProduct the sum of the products of all elements
C14_VectorErrors ==
  call.op \in {"DotProduct", "CosineSimilarity"}
  => LET a == call.args[1]
         b == call.args[2]
         zero == call.op = "CosineSimilarity" /\ (Magnitude(a) = 0 \/ Magnitude(b) = 0)
     IN /\ Len(a) # Len(b) => ( outcome.err = "length" /\ outcome.value = 0 )
        /\ ( Len(a) = Len(b) /\ Len(a) = 0 ) => ( outcome.err = "empty" /\ outcome.value = 0 )
        /\ ( Len(a) = Len(b) /\ Len(a) > 0 /\ zero )
           => ( outcome.err = "zeronorm" /\ outcome.value = 0 )
        /\ ( Len(a) = Len(b) /\ Len(a) > 0 /\ ~zero ) => outcome.err = "none"
        /\ ( call.op = "DotProduct" /\ outcome.err = "none" )
           => outcome.value = FSum([i \in 1..Len(a) |-> FMul(a[i], b[i])])

\* DotProduct refused a one-element and a two-element vector
C14_Witness ==
  /\ call.op = "DotProduct"
  /\ call.args = << <<1>>, <<1, 100>> >>
  /\ outcome.err = "length"

\* the query has no term of any kind
NoTokens(sq) ==
  /\ sq.required = <<>>
  /\ sq.excluded = <<>>
  /\ sq.phrases = <<>>
  /\ sq.normal = <<>>

\* C15: when the query parses to no token in any of the four sets,
\* calculateRelevance gives score 0 and exclude = false for every branch
\* read, every result has keyword score 0, and the call has no error once
\* the branches are listed
C15_EmptyQuery ==
  LET sq == parseSearchQuery(query) IN
  NoTokens(sq) =>
    /\ \A j \in 1..Len(branches) :
          calculateRelevance(sq, branches[j].meta) = [score |-> 0, exclude |-> FALSE]
    /\ \A i \in 1..Len(results) : results[i].KeywordScore = 0
    /\ listed > 0 => err = "none"

\* the query " " ran to the end in hybrid mode and returned a branch on its
\* semantic score alone
C15_Witness ==
  /\ pc = "done"
  /\ query = <<" ">>
  /\ parsedQuery = EmptyQuery
  /\ useSemanticSearch
  /\ err = "none"
  /\ \E i \in 1..Len(results) : results[i].KeywordScore = 0 /\ results[i].Score > 0

\* C16: no snapshot branch ever has more than one snapshot commit; a runSave
\* that finds its branch name taken returns the "already exists" error, and
\* the step that returns it comes before git.CreateBranch and creates no
\* branch, worktree or commit
C16_SaveImmutable ==
  [][ /\ \A name \in DOMAIN snapshotBranches' : snapshotBranches'[name].commits <= 1
      /\ \A p \in SaveProcs :
            /\ ( /\ saveProc[p].pc = "check"
                 /\ saveProc'[p].pc # "check"
                 /\ BranchName(now, saveProc[p].topic) \in DOMAIN snapshotBranches )
               => saveProc'[p].err = "exists"
            /\ ( saveProc'[p].err = "exists" /\ saveProc[p].err # "exists" )
               => ( /\ saveProc[p].pc = "check"
                    /\ snapshotBranches' = snapshotBranches
                    /\ worktrees' = worktrees
                    /\ p \notin worktrees ) ]_vars

\* a save was refused because the branch of this minute and topic holds a
\* snapshot commit already
C16_Witness ==
  \E p \in SaveProcs :
    /\ saveProc[p].pc = "done"
    /\ saveProc[p].err = "exists"
    /\ snapshotBranches[BranchName(saveProc[p].timestamp, saveProc[p].topic)].commits = 1

\* C17: a runPrune with the force flag set that returns no error leaves no
\* branch that was older than the cutoff and without a preserve tag, except
\* those git refused to delete; a runPrune without the force flag deletes no
\* branch
C17_ForceDeletes ==
  [][ ( call'.op = "runPrune" /\ outcome'.err = "none" )
      => /\ call'.args[1] =>
               \A name \in ToPrune(now - RetentionDays) :
                  name \notin DOMAIN snapshotBranches' \/ name \in outcome'.value[2]
         /\ ~call'.args[1] => snapshotBranches' = snapshotBranches ]_vars

\* the largest number of occurrences of sub in s that do not overlap
Occurrences(s, sub) ==
  LET positions == { i \in 1..Len(s) : MatchAt(s, sub, i) }
      apart(P) == \A i \in P, j \in P : i < j => j - i >= Len(sub)
      sizes == { Cardinality(P) : P \in { Q \in SUBSET positions : apart(Q) } }
  IN CHOOSE n \in sizes : \A m \in sizes : m <= n

\* the points the formula gives for one token
TokenPoints(token, metadata) ==
  10 * Occurrences(SearchableText(metadata), token)
  + (IF Contains(ToLower(metadata.Topic), token) THEN 50 ELSE 0)
  + 30 * Cardinality({ t \in 1..Len(metadata.Tags) :
                         Contains(ToLower(metadata.Tags[t]), token) })

\* the points the formula gives for one phrase
PhrasePoints(phrase, metadata) ==
  (IF Contains(SearchableText(metadata), phrase) THEN 100 ELSE 0)
  + (IF Contains(ToLower(metadata.Topic), phrase) THEN 150 ELSE 0)

C19_Inclusion ==
  [][ ( pc = "loop" /\ next' = next + 1 )
      => LET branch == branches'[next]
             rel == calculateRelevance(parsedQuery, branch.meta)
             passed == /\ branch.loaded
                       /\ (searchTopic = "" \/ branch.slug = searchTopic)
                       /\ ~rel.exclude
             added == results' # results
             last == results'[Len(results')]
         IN /\ added => ( passed /\ results' = Append(results, last) /\ last.Info = next )
            /\ ( passed /\ rel.score > 0 ) => added
            /\ added => ( last.KeywordScore = rel.score
                          /\ ( last.Score > 0 \/ last.KeywordScore > 0 ) )
            /\ passed =>
                 \E tmpWritten \in BOOLEAN :
                    LET sem == SemanticAttempt(useSemanticSearch, queryEmbedding,
                                               branch, tmpWritten)
                        finalScore == FinalScore(sem.usedSemantic, rel.score,
                                                 sem.semanticScore, keywordWeight,
                                                 semanticWeight)
                    IN /\ added <=> ( finalScore > 0 \/ rel.score > 0 )
                       /\ added => last.Score = finalScore ]_vars

\* a result scored semantically whose weighted final score is not positive,
\* kept for its keyword score
C19_Witness ==
  /\ pc = "done"
  /\ \E i \in 1..Len(results) :
        /\ results[i].UsedSemantic
        /\ results[i].KeywordScore > 0
        /\ results[i].Score <= 0

\* the characters of q that are no quote and have an even number of quotes
\* before them, in order
OutsideQuotes(q) ==
  LET quotesBefore(i) == Cardinality({ k \in 1..(i - 1) : q[k] = "\"" })
      keep == { i \in 1..Len(q) : q[i] # "\"" /\ quotesBefore(i) % 2 = 0 }
      nth(n) == CHOOSE i \in keep : Cardinality({ k \in keep : k < i }) = n - 1
  IN [n \in 1..Cardinality(keep) |-> q[nth(n)]]

IsRequiredToken(t) == t[1] = "+" /\ Len(t) > 1
IsExcludedToken(t) == t[1] = "-" /\ Len(t) > 1
IsBareToken(t) == t = <<"+">> \/ t = <<"-">>
IsNormalToken(t) == t[1] # "+" /\ t[1] # "-"

\* the tokens that pass the test, each without its first `drop` characters
\* and in lowercase, in order
Placed(tokens, Test(_), drop) ==
  LET chosen == SelectSeq(tokens, Test) IN
  [i \in 1..Len(chosen) |-> ToLower(SubSeq(chosen[i], drop + 1, Len(chosen[i])))]

\* C20: of the whitespace-separated tokens of the text outside quotes, those
\* that begin with + and are longer go to required without the prefix, those
\* that begin with - and are longer go to excluded without the prefix, a
\* bare + or - goes nowhere, all others go to normal; all in lowercase and in
\* their order of appearance, each token in one place
C20_TokenClassification ==
  call.op = "parseSearchQuery"
  => LET tokens == Fields(OutsideQuotes(call.args[1]))
         sq == outcome.value
     IN /\ sq.required = Placed(tokens, IsRequiredToken, 1)
        /\ sq.excluded = Placed(tokens, IsExcludedToken, 1)
        /\ sq.normal = Placed(tokens, IsNormalToken, 0)
        /\ Len(sq.required) + Len(sq.excluded) + Len(sq.normal)
             + Len(SelectSeq(tokens, IsBareToken)) = Len(tokens)

\* +B and a bare -: the first is required as b, the second is dropped
C20_Witness ==
  /\ call.op = "parseSearchQuery"
  /\ call.args[1] = <<"+", "B", " ", "-">>
  /\ outcome.value.required = << <<"b">> >>
  /\ outcome.value.excluded = <<>>
  /\ outcome.value.normal = <<>>

\* the positions of the quotes of q
QuotePositions(q) == { i \in 1..Len(q) : q[i] = "\"" }

\* the position of the n-th quote of q
NthQuote(q, n) ==
  CHOOSE i \in QuotePositions(q) : Cardinality({ k \in QuotePositions(q) : k < i }) = n - 1

\* what stands between each opening quote of q and its closing quote, in order
ClosedSpans(q) ==
  [k \in 1..(Cardinality(QuotePositions(q)) \div 2) |->
     SubSeq(q, NthQuote(q, 2 * k - 1) + 1, NthQuote(q, 2 * k) - 1)]

IsNonEmpty(t) == t # <<>>

\* C21: the phrases are the non-empty spans between an opening quote and its
\* closing quote, in lowercase, whitespace kept, in order; required, excluded
\* and normal are what the query gives with every quoted span taken out, so
\* no character of a span is part of a term, whether or not it is + or -
C21_QuotedSpanIsolation ==
  call.op = "parseSearchQuery"
  => LET q == call.args[1]
         sq == outcome.value
         spans == SelectSeq(ClosedSpans(q), IsNonEmpty)
         without == parseSearchQuery(OutsideQuotes(q))
     IN /\ sq.phrases = [k \in 1..Len(spans) |-> ToLower(spans[k])]
        /\ sq.required = without.required
        /\ sq.excluded = without.excluded
        /\ sq.normal = without.normal

\* the span "+B" became the phrase +b and no required term
C21_Witness ==
  /\ call.op = "parseSearchQuery"
  /\ call.args[1] = <<"\"", "+", "B", "\"">>
  /\ outcome.value.phrases = << <<"+", "b">> >>
  /\ outcome.value.required = <<>>
  /\ outcome.value.normal = <<>>

\* the strings in a list of the parsed query
Tokens(list) == { list[k] : k \in 1..Len(list) }

\* C22: required, excluded, phrases and normal of a parsed query are
\* pairwise disjoint and hold lowercase strings only
C22_DisjointSets ==
  call.op = "parseSearchQuery"
  => LET sq == outcome.value
         lists == << sq.required, sq.excluded, sq.phrases, sq.normal >>
     IN /\ \A i \in 1..4, j \in 1..4 :
              i # j => Tokens(lists[i]) \cap Tokens(lists[j]) = {}
        /\ \A i \in 1..4 : \A t \in Tokens(lists[i]) : t = ToLower(t)

\* C23: a query with an opening quote that is never closed parses, without
\* error, to what the text before that quote parses to: nothing after the
\* quote becomes a phrase or a term
C23_UnterminatedQuote ==
  ( call.op = "parseSearchQuery" /\ Cardinality(QuotePositions(call.args[1])) % 2 = 1 )
  => LET q == call.args[1]
         opening == NthQuote(q, Cardinality(QuotePositions(q)))
     IN /\ outcome.err = "none"
        /\ outcome.value = parseSearchQuery(SubSeq(q, 1, opening - 1))
        /\ Len(outcome.value.phrases) = Cardinality(QuotePositions(q)) \div 2
             - Len(SelectSeq(ClosedSpans(q), LAMBDA t : t = <<>>))

\* a term, then an opening quote that is never closed before +B
C23_Witness ==
  /\ call.op = "parseSearchQuery"
  /\ call.args[1] = <<"a", "\"", "+", "B">>
  /\ outcome.value = [required |-> <<>>, excluded |-> <<>>, phrases |-> <<>>,
                      normal |-> << <<"a">> >>]

\* C24: an Embed request is sent at most once in a call, only after the
\* probe found embeddings enabled, the service available and a client, and
\* before the loop has read its first branch; the loop sends none
C24_SingleQueryEmbedding ==
  [][ embedRequests' # embedRequests
      => ( /\ embedRequests = 0
           /\ embedRequests' = 1
           /\ pc = "embed"
           /\ semanticStatus = "probed"
           /\ next = 1
           /\ branches = <<>>
           /\ results = <<>> ) ]_vars

\* two branches were scored semantically on one request
C24_Witness ==
  /\ pc = "done"
  /\ embedRequests = 1
  /\ Len(results) = 2
  /\ \A i \in 1..Len(results) : results[i].UsedSemantic

\* C25: the semantic score of an iteration lies in [0, 100]: it is
\* (similarity + 1) * 50 for a similarity in [-1, 1] when usedSemantic is
\* true and 0 when it is false
C25_SemanticScoreRange ==
  call.op = "SemanticAttempt"
  => LET sem == outcome.value IN
     /\ sem.semanticScore # NaNScore
     /\ sem.semanticScore >= 0
     /\ sem.semanticScore <= 100 * SimScale
     /\ ~sem.usedSemantic => sem.semanticScore = 0
     /\ sem.usedSemantic
          => \E similarity \in (-SimScale)..SimScale :
               sem.semanticScore = (similarity + SimScale) * 50

\* the name of the branch process p works on
SaveBranch(p) == BranchName(saveProc[p].timestamp, saveProc[p].topic)

\* these bytes decode to a vector that ValidateEmbedding accepts
HoldsValidVector(f) ==
  /\ f.exists
  /\ ReadEmbedding(f.bytes).err = "none"
  /\ ValidateEmbedding(ReadEmbedding(f.bytes).vec) = "none"

\* C26: meta.json comes to name embedding.bin only in a step before which
\* embedding.bin holds the whole of a validated, non-empty vector; a save that
\* skips the embedding (--no-embed, embeddings disabled) or fails at the
\* availability check, the client, the model check, the generation, the
\* validation or the write goes on to the commit without an error, and the
\* snapshot it commits has a meta.json without the reference; a committed
\* meta.json with the reference comes with a valid embedding.bin
C26_EmbeddingReference ==
  [][ /\ \A p \in SaveProcs :
            /\ ( saveProc'[p].metaFile = "referencing" /\ saveProc[p].metaFile # "referencing" )
               => ( /\ Len(saveProc[p].vec) > 0
                    /\ ValidateEmbedding(saveProc[p].vec) = "none"
                    /\ saveProc[p].embFile =
                         [exists |-> TRUE, bytes |-> EncodeVector(saveProc[p].vec)]
                    /\ saveProc[p].embedErr = "none" )
            /\ ( saveProc'[p].embedErr # "none" /\ saveProc[p].embedErr = "none" )
               => ( /\ saveProc'[p].pc = "commit"
                    /\ saveProc'[p].err = "none"
                    /\ saveProc'[p].metaFile # "referencing" )
            /\ ( /\ saveProc[p].pc = "commit"
                 /\ saveProc'[p].pc = "done"
                 /\ saveProc'[p].err = "none"
                 /\ saveProc[p].embedErr # "none" )
               => ( /\ snapshotBranches'[SaveBranch(p)].commits = 1
                    /\ snapshotBranches'[SaveBranch(p)].metaFile # "referencing" )
      /\ \A name \in DOMAIN snapshotBranches' :
            snapshotBranches'[name].metaFile = "referencing"
            => HoldsValidVector(snapshotBranches'[name].embFile) ]_vars

\* one save committed a snapshot whose meta.json names a valid embedding.bin,
\* another, whose write of embedding.bin failed, a snapshot without the
\* reference
C26_Witness ==
  /\ \E name \in DOMAIN snapshotBranches :
        /\ snapshotBranches[name].commits = 1
        /\ snapshotBranches[name].metaFile = "referencing"
        /\ HoldsValidVector(snapshotBranches[name].embFile)
  /\ \E p \in SaveProcs :
        /\ saveProc[p].pc = "done"
        /\ saveProc[p].err = "none"
        /\ saveProc[p].embedErr = "write"
        /\ snapshotBranches[SaveBranch(p)].commits = 1
        /\ snapshotBranches[SaveBranch(p)].metaFile = "plain"

\* C27: in every result HasEmbedding equals UsedSemantic; a result whose
\* metadata names an embedding has HasEmbedding false when the call is
\* keyword-only or the stored embedding cannot be shown, decoded or compared
C27_HasEmbeddingIsUsedSemantic ==
  \A i \in 1..Len(results) :
    /\ results[i].HasEmbedding = results[i].UsedSemantic
    /\ ( /\ branches[results[i].Info].meta.Embedding # NoString
         /\ (~useSemanticSearch \/ ~StoredEmbeddingUsable(results[i].Info)) )
       => ~results[i].HasEmbedding

\* a semantic call returned a result that used its stored embedding and one
\* whose metadata names an embedding that could not be used
C27_Witness ==
  /\ pc = "done"
  /\ useSemanticSearch
  /\ \E i, k \in 1..Len(results) :
        /\ branches[results[i].Info].meta.Embedding # NoString
        /\ ~results[i].HasEmbedding
        /\ ~results[i].UsedSemantic
        /\ results[k].HasEmbedding
        /\ results[k].UsedSemantic

\* C28: in a call without a query embedding every result has a keyword score
\* above 0; so a query without a normal, required or phrase token has no
\* result, whatever branches pass the topic filter and the exclusions
C28_KeywordOnlyPositive ==
  ~useSemanticSearch
  => /\ \A i \in 1..Len(results) : results[i].KeywordScore > 0
     /\ ( /\ parsedQuery.normal = <<>>
          /\ parsedQuery.required = <<>>
          /\ parsedQuery.phrases = <<>> )
        => results = <<>>

\* a keyword-only call with excluded terms only ended without a result, though
\* it read a branch that is loaded, passes the topic filter and contains no
\* excluded term
C28_Witness ==
  /\ pc = "done"
  /\ ~useSemanticSearch
  /\ parsedQuery.excluded # <<>>
  /\ parsedQuery.normal = <<>>
  /\ parsedQuery.required = <<>>
  /\ parsedQuery.phrases = <<>>
  /\ results = <<>>
  /\ \E j \in 1..Len(branches) :
        /\ Considered(j)
        /\ ~calculateRelevance(parsedQuery, branches[j].meta).exclude

C30_NoEmptyToken ==
  call.op = "parseSearchQuery"
  => LET sq == outcome.value IN
     /\ \A i \in 1..Len(sq.required) : sq.required[i] # <<>>
     /\ \A i \in 1..Len(sq.excluded) : sq.excluded[i] # <<>>
     /\ \A i \in 1..Len(sq.phrases) : sq.phrases[i] # <<>>
     /\ \A i \in 1..Len(sq.normal) : sq.normal[i] # <<>>

\* a bare + and an empty quoted span were parsed: neither left an entry
C30_Witness ==
  /\ call.op = "parseSearchQuery"
  /\ call.args[1] = <<"+", " ", "\"", "\"">>
  /\ NoTokens(outcome.value)


====
